---- MODULE Spec2Model ----
(***************************************************************************)
(* A model of kickr_gears.py: the gear decoder (decode_gears), the         *)
(* stateful grade/lock decoder (calc_grade) with its two module globals,   *)
(* the two notification handlers and their hand-off queues, the display    *)
(* poll (process_queue) and the reconnect loop (main).                     *)
(*                                                                         *)
(* Python values are modelled as follows.                                  *)
(*   - bytes / bytearray : a sequence of integers in 0..255; the source's  *)
(*     0-based index data[i] is At(data, i).                               *)
(*   - None / a value    : the empty sequence <<>> / the one-element       *)
(*     sequence <<v>> (None and Some).                                     *)
(*   - a raised exception: a result record with raised = TRUE.             *)
(*   - str               : a TLA+ string, built with \o and ToString.      *)
(***************************************************************************)
EXTENDS Integers, Sequences, FiniteSets, TLC

VARIABLES
    current_lock_status,  \* module global, line 38: None, or a bool
    current_grade,        \* module global, line 39: None, or the grade string
    gears_queue,          \* module global, line 34: Queue of (str, str)
    grade_queue,          \* module global, line 35: Queue of str
    gear_label_front,     \* text of the tk label, line 399
    gear_label_back,      \* text of the tk label, line 403
    grade_label,          \* text of the tk label, line 409
    pc,                   \* position of the coroutine main()
    kicker,               \* main's local: None, or the chosen device's name
    is_connected,         \* client.is_connected of the BleakClient in use
    gears_notify,         \* start_notify(test_uuid, ...) is in force
    grade_notify,         \* start_notify(grade_uuid, ...) is in force
    poll_pc,              \* position of the tk callback process_queue()
    last,                 \* history: the latest direct call of a decoder, its outcome
    hist,                 \* history of the hand-off, kept by SpecDisplay
    window_scale,         \* module global, line 40, in hundredths
    dragging_enabled,     \* module global, line 149
    current_dialog,       \* module global, line 148: None, or a dialog
    dialogs,              \* the Toplevel windows that exist
    root_exists,          \* the main window exists (the process runs)
    ui_stack,             \* the calls of show_scale_dialog inside dialog.update()
    config_scale          \* 'scale' of kickr_gears_config.json: None when absent

vars == <<current_lock_status, current_grade, gears_queue, grade_queue,
          gear_label_front, gear_label_back, grade_label,
          pc, kicker, is_connected, gears_notify, grade_notify, poll_pc, last,
          hist, window_scale, dragging_enabled, current_dialog, dialogs,
          root_exists, ui_stack, config_scale>>

decoderVars == <<current_lock_status, current_grade>>
queueVars == <<gears_queue, grade_queue>>
labelVars == <<gear_label_front, gear_label_back, grade_label, poll_pc>>
loopVars == <<pc, kicker, is_connected, gears_notify, grade_notify>>
windowVars == <<window_scale, dragging_enabled, current_dialog, dialogs,
                root_exists, ui_stack, config_scale>>

----------------------------------------------------------------------------
(* Bounds of the model. *)

\* Longest notification payload drawn as an input.
MaxLen == 4

\* Most items waiting in either hand-off queue (queue.Queue() has no limit).
MaxQueue == 1

\* Most items waiting in either hand-off queue while the hand-off is observed.
MaxPending == 2

\* Most calls of show_scale_dialog nested in one another's dialog.update().
MaxNest == 2

----------------------------------------------------------------------------
(* Python values. *)

None == <<>>
Some(v) == <<v>>
IsNone(o) == o = <<>>
Val(o) == o[1]

\* data[i], 0-based as in the source.  Only called with i < Len(data).
At(data, i) == data[i + 1]

\* The byte values drawn at each 0-based offset of an input payload: the two
\* header bytes and their neighbours, then the flag / low byte, the high
\* byte on both sides of 0x80, and one trailing byte.
ByteAt(i) ==
    CASE i = 0 -> {0, 253}
      [] i = 1 -> {0, 51, 52}
      [] i = 2 -> {0, 1, 80, 255}
      [] i = 3 -> {0, 5, 127, 128, 255}
      [] OTHER -> {1}

\* The payloads of n bytes whose byte at each offset i is in ByteAt(i).
RECURSIVE PayloadsOfLen(_)
PayloadsOfLen(n) ==
    IF n = 0 THEN { <<>> }
    ELSE { Append(p, b) : p \in PayloadsOfLen(n - 1), b \in ByteAt(n - 1) }

Payloads == UNION { PayloadsOfLen(n) : n \in 0..MaxLen }

----------------------------------------------------------------------------
(* f"{x:.1f}" for x = n / 100.0, n a non-negative integer below 2^16.      *)
(* Python divides in IEEE double precision (round to nearest) and prints   *)
(* the double's exact value rounded half-even to one decimal.  Only when   *)
(* n / 100 lies exactly between two tenths does the double's rounding      *)
(* error decide the digit; its sign is the sign of 50 - (n * 2^k mod 100), *)
(* k = 52 - floor(log2(n / 100)), the scale of the 53-bit significand.     *)

RECURSIVE Pow2Mod100(_)
Pow2Mod100(k) == IF k = 0 THEN 1 ELSE (2 * Pow2Mod100(k - 1)) % 100

RECURSIVE Pow2(_)
Pow2(k) == IF k = 0 THEN 1 ELSE 2 * Pow2(k - 1)

\* The least j with n * 2^j >= 100 (n in 1..99).
RECURSIVE ShiftBelow(_, _)
ShiftBelow(n, j) == IF n * Pow2(j) >= 100 THEN j ELSE ShiftBelow(n, j + 1)

\* The greatest e with 100 * 2^e <= n (n >= 100).
RECURSIVE ExpAbove(_, _)
ExpAbove(n, e) == IF 100 * Pow2(e + 1) > n THEN e ELSE ExpAbove(n, e + 1)

\* floor(log2(n / 100)) for n >= 1.
FloatExp(n) == IF n >= 100 THEN ExpAbove(n, 0) ELSE 0 - ShiftBelow(n, 0)

\* The remainder of n * 2^k by 100, k the significand's scale: 0 when
\* n / 100.0 is exact, below 50 when the double is below n / 100, else above.
DivRem(n) == ((n % 100) * Pow2Mod100(52 - FloatExp(n))) % 100

\* The number of tenths f"{n / 100.0:.1f}" shows.
Tenths(n) ==
    LET q == n \div 10
        d == n % 10
    IN  IF d < 5 THEN q
        ELSE IF d > 5 THEN q + 1
        ELSE IF DivRem(n) = 0 THEN (IF q % 2 = 0 THEN q ELSE q + 1)
        ELSE IF DivRem(n) < 50 THEN q
        ELSE q + 1

\* The text of t tenths with one fractional digit.
OneDecimal(t) == ToString(t \div 10) \o "." \o ToString(t % 10)

\* f"{n / 100.0:.1f}"
FormatHundredths(n) == OneDecimal(Tenths(n))

----------------------------------------------------------------------------
(* calc_grade, lines 111-146. *)

\* data[3] << 8 | data[2]
Raw16(data) == At(data, 3) * 256 + At(data, 2)

\* lock_branch with the flag test "data[2] != 0" in place of "data[2] == 0x01".
lock_branch_nonzero(data, lock) ==
    IF Len(data) >= 3 /\ At(data, 0) = 253 /\ At(data, 1) = 51
    THEN Some(At(data, 2) # 0)
    ELSE lock

\* lock_branch without the test of data[0].
lock_branch_anyfirst(data, lock) ==
    IF Len(data) >= 3 /\ At(data, 1) = 51
    THEN Some(At(data, 2) = 1)
    ELSE lock

\* lock_branch forgetting the lock when the payload is not a lock payload.
lock_branch_forgets(data, lock) ==
    IF Len(data) >= 3 /\ At(data, 0) = 253 /\ At(data, 1) = 51
    THEN Some(At(data, 2) = 1)
    ELSE None

\* lock_branch flipping the lock on every lock payload, whatever its flag.
lock_branch_toggle(data, lock) ==
    IF Len(data) >= 3 /\ At(data, 0) = 253 /\ At(data, 1) = 51
    THEN Some(lock # Some(TRUE))
    ELSE lock

\* Lines 118-120: the lock/unlock branch; the new current_lock_status.
lock_branch(data, lock) ==
    IF Len(data) >= 3 /\ At(data, 0) = 253 /\ At(data, 1) = 51
    THEN Some(At(data, 2) = 1)
    ELSE lock

\* positive_grade with the two bytes composed big-endian.
positive_grade_bigendian(data) ==
    "+" \o FormatHundredths(At(data, 2) * 256 + At(data, 3)) \o "%"

\* Lines 124-127: a positive grade.
positive_grade(data) == "+" \o FormatHundredths(Raw16(data)) \o "%"

\* negative_grade with the two's-complement magnitude 0x10000 - raw.
negative_grade_twos(data) == "-" \o FormatHundredths(65536 - Raw16(data)) \o "%"

\* Lines 128-132: a negative grade.
negative_grade(data) == "-" \o FormatHundredths(65535 - Raw16(data)) \o "%"

\* Lines 122-132: the grade branch; the new current_grade.
grade_branch(data, grade) ==
    IF Len(data) >= 4 /\ At(data, 0) = 253 /\ At(data, 1) = 52
    THEN IF At(data, 3) < 128
         THEN Some(positive_grade(data))
         ELSE Some(negative_grade(data))
    ELSE grade

\* lock_text with the two letters exchanged.
lock_text_swapped(lock) == IF Val(lock) THEN "U" ELSE "L"

\* Lines 137, 144: "L" if current_lock_status else "U"
lock_text(lock) == IF Val(lock) THEN "L" ELSE "U"

\* build_output returning the grade alone whenever a grade is known.
build_output_grade_only(grade, lock) ==
    IF ~IsNone(grade) THEN Some(Val(grade))
    ELSE IF ~IsNone(lock) THEN Some(lock_text(lock))
    ELSE None

\* Lines 134-146: the returned label, built from the two globals.
build_output(grade, lock) ==
    IF ~IsNone(grade)
    THEN IF ~IsNone(lock)
         THEN Some(Val(grade) \o " (" \o lock_text(lock) \o ")")
         ELSE Some(Val(grade))
    ELSE IF ~IsNone(lock)
         THEN Some(lock_text(lock))
         ELSE None

\* calc_grade(data) run with the globals at (grade, lock): the globals after
\* the call and the value returned.  No statement of it can raise: every
\* index is guarded by the length test before it.
calc_grade(data, grade, lock) ==
    LET l == lock_branch(data, lock)
        g == grade_branch(data, grade)
    IN  [current_lock_status |-> l, current_grade |-> g,
         raised |-> FALSE, ret |-> build_output(g, l)]

----------------------------------------------------------------------------
(* decode_gears, lines 538-548. *)

\* gears_guard off by one.
gears_guard_one(data) == Len(data) >= 1

\* Line 543: the guard of the decoding branch.
gears_guard(data) == Len(data) >= 2

\* gear_labels reading offsets 0 and 1, as the docstring describes the payload.
gear_labels_docstring(data) ==
    <<"Front Gear: " \o ToString(1 + At(data, 0)),
      "Rear Gear : " \o ToString(1 + At(data, 1))>>

\* Lines 544-546: the labels; data[2] and data[3] must exist.
gear_labels(data) ==
    <<"Front Gear: " \o ToString(1 + At(data, 2)),
      "Rear Gear : " \o ToString(1 + At(data, 3))>>

\* decode_gears(data): the returned pair, or IndexError raised by data[2]
\* (line 544) or data[3] (line 545) of a payload that has no such offset.
decode_gears(data) ==
    IF gears_guard(data)
    THEN IF Len(data) < 4
         THEN [raised |-> TRUE, ret |-> <<"IndexError">>]
         ELSE [raised |-> FALSE, ret |-> gear_labels(data)]
    ELSE [raised |-> FALSE, ret |-> <<"Bad Gear", "Data">>]

----------------------------------------------------------------------------
(* The state after the module is loaded and create_mini_window has built   *)
(* the labels; main() has not started its first iteration.                 *)

NoCall == [op |-> "none", data |-> <<>>, raised |-> FALSE, ret |-> <<>>]

\* Nothing handed off yet.  pending: the items put and not yet shown, oldest
\* first, each with its queue; latest_gears, latest_grade: the item put last
\* on each queue; owed_gears, owed_grade: how many of the items that waited
\* when the running process_queue started it has not taken yet.
NoHist ==
    [pending |-> <<>>, latest_gears |-> None, latest_grade |-> None,
     owed_gears |-> 0, owed_grade |-> 0]

Init ==
    /\ current_lock_status = None
    /\ current_grade = None
    /\ gears_queue = <<>>
    /\ grade_queue = <<>>
    /\ gear_label_front = "Connecting to"
    /\ gear_label_back = "KICKR"
    /\ grade_label = "Grade: --"
    /\ pc = "loop"
    /\ kicker = None
    /\ is_connected = FALSE
    /\ gears_notify = FALSE
    /\ grade_notify = FALSE
    /\ poll_pc = "idle"
    /\ last = NoCall
    /\ hist = NoHist
    /\ window_scale = 100
    /\ dragging_enabled = FALSE
    /\ current_dialog = None
    /\ dialogs = {}
    /\ root_exists = TRUE
    /\ ui_stack = <<>>
    /\ config_scale = None

----------------------------------------------------------------------------
(* The decoders called directly, one payload per step. *)

\* One call of calc_grade(data).
CalcGradeCall(data) ==
    LET r == calc_grade(data, current_grade, current_lock_status)
    IN  /\ current_lock_status' = r.current_lock_status
        /\ current_grade' = r.current_grade
        /\ last' = [op |-> "calc_grade", data |-> data,
                    raised |-> r.raised, ret |-> r.ret]
        /\ UNCHANGED <<queueVars, labelVars, loopVars>>

\* One call of decode_gears(data).
DecodeGearsCall(data) ==
    LET r == decode_gears(data)
    IN  /\ last' = [op |-> "decode_gears", data |-> data,
                    raised |-> r.raised, ret |-> r.ret]
        /\ UNCHANGED <<decoderVars, queueVars, labelVars, loopVars>>

GradeNext ==
    (\E data \in Payloads : CalcGradeCall(data)) /\ UNCHANGED <<hist, windowVars>>

GearsNext ==
    (\E data \in Payloads : DecodeGearsCall(data)) /\ UNCHANGED <<hist, windowVars>>

\* Any sequence of calc_grade calls from the initial globals.
SpecGrade == Init /\ [][GradeNext]_vars

\* Any sequence of decode_gears calls.
SpecGears == Init /\ [][GearsNext]_vars

\* The payloads of the repeated calls: every payload of the length of a lock
\* payload and of a grade payload, the empty payload and a bare header.
RepeatPayloads ==
    PayloadsOfLen(3) \cup PayloadsOfLen(4) \cup { <<>>, <<253, 51>>, <<253, 52>> }

\* calc_grade(data) called again with the payload of the call before it; the
\* record keeps what that call returned and the globals it left.
CalcGradeAgain ==
    LET r == calc_grade(last.data, current_grade, current_lock_status)
    IN  /\ last.op \in {"calc_grade", "calc_grade again"}
        /\ current_lock_status' = r.current_lock_status
        /\ current_grade' = r.current_grade
        /\ last' = [op |-> "calc_grade again", data |-> last.data,
                    raised |-> r.raised, ret |-> r.ret,
                    first_ret |-> last.ret,
                    first_grade |-> current_grade,
                    first_lock |-> current_lock_status]
        /\ UNCHANGED <<queueVars, labelVars, loopVars>>

RepeatNext ==
    /\ \/ \E data \in RepeatPayloads : CalcGradeCall(data)
       \/ CalcGradeAgain
    /\ UNCHANGED <<hist, windowVars>>

\* Any sequence of calc_grade calls, some of them repeating the payload of
\* the call before.
SpecRepeat == Init /\ [][RepeatNext]_vars

----------------------------------------------------------------------------
(* The running program: main() in the BLE thread, the two notification     *)
(* handlers called by the BLE client while main awaits, and process_queue  *)
(* in the tk thread.  One step is one stretch of code between two awaits   *)
(* (main, the handlers) or one queue operation (process_queue).            *)

\* The payloads the trainer sends in the running program: lock, unlock, two
\* grades, an unknown header, a gear report, and the empty payload.
NotifyPayloads ==
    { <<253, 51, 1>>, <<253, 51, 0>>, <<253, 52, 80, 0>>, <<253, 52, 0, 255>>,
      <<0, 0>>, <<0, 0, 0, 5>>, <<>> }

\* The texts of the exceptions the BLE calls raise.
ExcTexts == { "timeout" }

\* The results of BleakScanner.discover(): lists of device names (d.name is
\* None for a device that advertises no name).
DeviceLists ==
    { <<>>,
      <<None, Some("kickr bike")>>,
      <<Some("Polar H10"), Some("KICKR BIKE 1A2B"), Some("Wahoo KICKR 3C4D")>> }

\* "KICKR" in name
HasKICKR(name) ==
    \E i \in 1..(Len(name) - 4) : SubSeq(name, i, i + 4) = "KICKR"

\* first_kickr without the break of line 571: the last such device wins.
RECURSIVE first_kickr_last(_)
first_kickr_last(devices) ==
    IF devices = <<>> THEN None
    ELSE IF first_kickr_last(Tail(devices)) # None
         THEN first_kickr_last(Tail(devices))
         ELSE IF ~IsNone(Head(devices)) /\ HasKICKR(Val(Head(devices)))
              THEN Head(devices)
              ELSE None

\* Lines 567-571: the first device with a name that contains "KICKR", or None.
RECURSIVE first_kickr(_)
first_kickr(devices) ==
    IF devices = <<>> THEN None
    ELSE IF ~IsNone(Head(devices)) /\ HasKICKR(Val(Head(devices)))
         THEN Head(devices)
         ELSE first_kickr(Tail(devices))

\* queue.put(item); queue.Queue() has no limit.
Put(queue, item) == Append(queue, item)

\* The model's bound on a step: it leaves at most n items in either queue.
QueuesWithin(n) == Len(gears_queue') <= n /\ Len(grade_queue') <= n

\* Leaving "async with BleakClient(...)": the client disconnects, and with it
\* both subscriptions end.
ClientExit ==
    /\ is_connected' = FALSE
    /\ gears_notify' = FALSE
    /\ grade_notify' = FALSE

\* Line 565: the top of the loop.
MainScan ==
    /\ pc = "loop"
    /\ gears_queue' = Put(gears_queue, <<"Scanning for", "KICKR...">>)
    /\ pc' = "discover"
    /\ UNCHANGED <<decoderVars, grade_queue, labelVars, kicker, is_connected,
                   gears_notify, grade_notify, last>>

\* Lines 566-576: discover() returns; no KICKR among the devices.
MainNotFound(devices) ==
    /\ pc = "discover"
    /\ first_kickr(devices) = None
    /\ kicker' = None
    /\ gears_queue' = Put(gears_queue, <<"KICKR not found.", "Retrying...">>)
    /\ pc' = "sleep"
    /\ UNCHANGED <<decoderVars, grade_queue, labelVars, is_connected,
                   gears_notify, grade_notify, last>>

\* Lines 566-573, 578: discover() returns; a KICKR is among the devices.
MainFound(devices) ==
    /\ pc = "discover"
    /\ first_kickr(devices) # None
    /\ kicker' = first_kickr(devices)
    /\ pc' = "connect"
    /\ UNCHANGED <<decoderVars, queueVars, labelVars, is_connected,
                   gears_notify, grade_notify, last>>

\* Lines 616-618 with "break" in place of the put and the sleep: an exception
\* ends main.
MainError_break(e) ==
    /\ pc \in {"discover", "connect", "notify_gears"}
    /\ ClientExit
    /\ pc' = "done"
    /\ UNCHANGED <<decoderVars, queueVars, labelVars, kicker, last>>

\* Lines 616-618: an exception of discover(), of the connection or of
\* start_notify(test_uuid) reaches the outer handler; the client, if any, has
\* been left.
MainError(e) ==
    /\ pc \in {"discover", "connect", "notify_gears"}
    /\ gears_queue' = Put(gears_queue, <<"Error: " \o e, "Retrying...">>)
    /\ ClientExit
    /\ pc' = "sleep"
    /\ UNCHANGED <<decoderVars, grade_queue, labelVars, kicker, last>>

\* Lines 575, 581, 618: asyncio.sleep(1) is over; continue.
MainSleepDone ==
    /\ pc = "sleep"
    /\ pc' = "loop"
    /\ UNCHANGED <<decoderVars, queueVars, labelVars, kicker, is_connected,
                   gears_notify, grade_notify, last>>

\* Lines 578-582: the client is entered but is not connected.
MainConnectionFailed ==
    /\ pc = "connect"
    /\ gears_queue' = Put(gears_queue, <<"Connection failed.", "Retrying...">>)
    /\ ClientExit
    /\ pc' = "sleep"
    /\ UNCHANGED <<decoderVars, grade_queue, labelVars, kicker, last>>

\* Lines 578-585: the client is entered and connected.
MainConnected ==
    /\ pc = "connect"
    /\ is_connected' = TRUE
    /\ gears_queue' = Put(gears_queue, <<"Connected to:", Val(kicker)>>)
    /\ pc' = "settle"
    /\ UNCHANGED <<decoderVars, grade_queue, labelVars, kicker,
                   gears_notify, grade_notify, last>>

\* Lines 585-591: asyncio.sleep(3) is over.
MainSettled ==
    /\ pc = "settle"
    /\ pc' = "notify_gears"
    /\ UNCHANGED <<decoderVars, queueVars, labelVars, kicker, is_connected,
                   gears_notify, grade_notify, last>>

\* Line 592 with a failure of start_notify(test_uuid, ...) swallowed the way
\* lines 596-597 swallow the failure of the grade subscription.
MainNotifyGears_swallowed ==
    /\ pc = "notify_gears"
    /\ gears_notify' \in {TRUE, FALSE}
    /\ pc' = "notify_grade"
    /\ UNCHANGED <<decoderVars, queueVars, labelVars, kicker, is_connected,
                   grade_notify, last>>

\* Line 592: start_notify(test_uuid, gears_notification_handler) succeeds.
MainNotifyGears ==
    /\ pc = "notify_gears"
    /\ is_connected
    /\ gears_notify' = TRUE
    /\ pc' = "notify_grade"
    /\ UNCHANGED <<decoderVars, queueVars, labelVars, kicker, is_connected,
                   grade_notify, last>>

\* Lines 594-595: start_notify(grade_uuid, grade_notification_handler) succeeds.
MainNotifyGrade ==
    /\ pc = "notify_grade"
    /\ is_connected
    /\ grade_notify' = TRUE
    /\ pc' = "active"
    /\ UNCHANGED <<decoderVars, queueVars, labelVars, kicker, is_connected,
                   gears_notify, last>>

\* Lines 594-597: start_notify(grade_uuid, ...) raises; the exception is
\* printed and main goes on without the grade subscription.
MainNotifyGradeFails ==
    /\ pc = "notify_grade"
    /\ pc' = "active"
    /\ UNCHANGED <<decoderVars, queueVars, labelVars, kicker, is_connected,
                   gears_notify, grade_notify, last>>

\* Lines 601-602: the link is up; asyncio.sleep(0.1) and test again.
MainPoll ==
    /\ pc = "active"
    /\ is_connected
    /\ UNCHANGED vars

\* Lines 601-604 without the put of line 604.
MainConnectionLost_silent ==
    /\ pc = "active"
    /\ ~is_connected
    /\ ClientExit
    /\ pc' = "loop"
    /\ UNCHANGED <<decoderVars, queueVars, labelVars, kicker, last>>

\* Lines 601-604: the link is down; the loop starts over at once.
MainConnectionLost ==
    /\ pc = "active"
    /\ ~is_connected
    /\ gears_queue' = Put(gears_queue, <<"Connection lost.", "Reconnecting...">>)
    /\ ClientExit
    /\ pc' = "loop"
    /\ UNCHANGED <<decoderVars, grade_queue, labelVars, kicker, last>>

\* Lines 612-613: an exception while polling; the loop starts over at once.
MainConnectionError(e) ==
    /\ pc = "active"
    /\ gears_queue' = Put(gears_queue, <<"Connection error " \o e, "Reconnecting...">>)
    /\ ClientExit
    /\ pc' = "loop"
    /\ UNCHANGED <<decoderVars, grade_queue, labelVars, kicker, last>>

\* The trainer goes out of reach or is switched off while a client holds it.
LinkLost ==
    /\ is_connected
    /\ is_connected' = FALSE
    /\ UNCHANGED <<decoderVars, queueVars, labelVars, pc, kicker,
                   gears_notify, grade_notify, last>>

\* gears_notification_handler also forgetting the grade.
GearsNotification_resets(data) ==
    LET r == decode_gears(data)
    IN  /\ is_connected
        /\ gears_notify
        /\ IF r.raised
           THEN UNCHANGED gears_queue
           ELSE gears_queue' = Put(gears_queue, r.ret)
        /\ current_grade' = None
        /\ UNCHANGED <<current_lock_status, grade_queue, labelVars, loopVars, last>>

\* Lines 550-554: gears_notification_handler(sender, data).  An exception of
\* decode_gears leaves the handler before the put.
GearsNotification(data) ==
    LET r == decode_gears(data)
    IN  /\ is_connected
        /\ gears_notify
        /\ IF r.raised
           THEN UNCHANGED gears_queue
           ELSE gears_queue' = Put(gears_queue, r.ret)
        /\ UNCHANGED <<decoderVars, grade_queue, labelVars, loopVars, last>>

\* grade_notification_handler without the test of line 559: None is put too
\* (process_queue would show it as "Grade: None").
GradeNotification_always(data) ==
    LET r == calc_grade(data, current_grade, current_lock_status)
    IN  /\ is_connected
        /\ grade_notify
        /\ current_lock_status' = r.current_lock_status
        /\ current_grade' = r.current_grade
        /\ grade_queue' = Put(grade_queue, IF IsNone(r.ret) THEN "None" ELSE Val(r.ret))
        /\ UNCHANGED <<gears_queue, labelVars, loopVars, last>>

\* Lines 556-560: grade_notification_handler(sender, data).
GradeNotification(data) ==
    LET r == calc_grade(data, current_grade, current_lock_status)
    IN  /\ is_connected
        /\ grade_notify
        /\ current_lock_status' = r.current_lock_status
        /\ current_grade' = r.current_grade
        /\ IF ~IsNone(r.ret) /\ Val(r.ret) # ""
           THEN grade_queue' = Put(grade_queue, Val(r.ret))
           ELSE UNCHANGED grade_queue
        /\ UNCHANGED <<gears_queue, labelVars, loopVars, last>>

\* Lines 449-457: the tk timer calls process_queue; the window exists.
ProcessQueueStart ==
    /\ poll_pc = "idle"
    /\ poll_pc' = "gears"
    /\ UNCHANGED <<decoderVars, queueVars, gear_label_front, gear_label_back,
                   grade_label, loopVars, last>>

\* ProcessGear taking the newest waiting item instead of the oldest.
ProcessGear_lifo ==
    /\ poll_pc = "gears"
    /\ gears_queue # <<>>
    /\ gear_label_front' = gears_queue[Len(gears_queue)][1]
    /\ gear_label_back' = gears_queue[Len(gears_queue)][2]
    /\ gears_queue' = SubSeq(gears_queue, 1, Len(gears_queue) - 1)
    /\ UNCHANGED <<decoderVars, grade_queue, grade_label, poll_pc, loopVars, last>>

\* ProcessGear with "if" in place of "while True": one item per call of
\* process_queue.
ProcessGear_once ==
    /\ poll_pc = "gears"
    /\ gears_queue # <<>>
    /\ gear_label_front' = Head(gears_queue)[1]
    /\ gear_label_back' = Head(gears_queue)[2]
    /\ gears_queue' = Tail(gears_queue)
    /\ poll_pc' = "grade"
    /\ UNCHANGED <<decoderVars, grade_queue, grade_label, loopVars, last>>

\* Lines 459-474: one gears_queue.get_nowait() that returns an item.
ProcessGear ==
    /\ poll_pc = "gears"
    /\ gears_queue # <<>>
    /\ gear_label_front' = Head(gears_queue)[1]
    /\ gear_label_back' = Head(gears_queue)[2]
    /\ gears_queue' = Tail(gears_queue)
    /\ UNCHANGED <<decoderVars, grade_queue, grade_label, poll_pc, loopVars, last>>

\* Lines 459, 475-476: gears_queue.get_nowait() raises Empty.
ProcessGearsEmpty ==
    /\ poll_pc = "gears"
    /\ gears_queue = <<>>
    /\ poll_pc' = "grade"
    /\ UNCHANGED <<decoderVars, queueVars, gear_label_front, gear_label_back,
                   grade_label, loopVars, last>>

\* Lines 480-482: one grade_queue.get_nowait() that returns an item.
ProcessGrade ==
    /\ poll_pc = "grade"
    /\ grade_queue # <<>>
    /\ grade_label' = "Grade: " \o Head(grade_queue)
    /\ grade_queue' = Tail(grade_queue)
    /\ UNCHANGED <<decoderVars, gears_queue, gear_label_front, gear_label_back,
                   poll_pc, loopVars, last>>

\* Lines 481, 483-509: grade_queue.get_nowait() raises Empty; the callback
\* schedules itself again and returns.
ProcessGradeEmpty ==
    /\ poll_pc = "grade"
    /\ grade_queue = <<>>
    /\ poll_pc' = "idle"
    /\ UNCHANGED <<decoderVars, queueVars, gear_label_front, gear_label_back,
                   grade_label, loopVars, last>>

\* A step of the running program: the model lets it leave at most MaxQueue
\* items in either queue.
Run(A) == A /\ QueuesWithin(MaxQueue) /\ UNCHANGED <<hist, windowVars>>

MainNext ==
    \/ Run(MainScan)
    \/ \E devices \in DeviceLists : Run(MainNotFound(devices))
    \/ \E devices \in DeviceLists : Run(MainFound(devices))
    \/ \E e \in ExcTexts : Run(MainError(e))
    \/ Run(MainSleepDone)
    \/ Run(MainConnectionFailed)
    \/ Run(MainConnected)
    \/ Run(MainSettled)
    \/ Run(MainNotifyGears)
    \/ Run(MainNotifyGrade)
    \/ Run(MainNotifyGradeFails)
    \/ Run(MainPoll)
    \/ Run(MainConnectionLost)
    \/ \E e \in ExcTexts : Run(MainConnectionError(e))

NotificationNext ==
    \/ \E data \in NotifyPayloads : Run(GearsNotification(data))
    \/ \E data \in NotifyPayloads : Run(GradeNotification(data))

ProcessQueueNext ==
    \/ Run(ProcessQueueStart)
    \/ Run(ProcessGear)
    \/ Run(ProcessGearsEmpty)
    \/ Run(ProcessGrade)
    \/ Run(ProcessGradeEmpty)

Next == MainNext \/ Run(LinkLost) \/ NotificationNext \/ ProcessQueueNext

\* The running program.
Spec == Init /\ [][Next]_vars

\* The positions at which main awaits a call that completes, by returning or
\* by raising: the top of the loop, discover(), the client's connection, the
\* two sleeps and the two start_notify calls.
Awaits ==
    {"loop", "discover", "connect", "settle", "notify_gears", "notify_grade",
     "sleep"}

\* The running program with its scheduling: every await of main completes,
\* the liveness poll sees a link that is down, and the tk timer keeps calling
\* process_queue.  Nothing makes a link that is up fail.
Fairness ==
    /\ \A p \in Awaits : WF_vars(pc = p /\ MainNext)
    /\ WF_vars(Run(MainConnectionLost))
    /\ WF_vars(ProcessQueueNext)

SpecLive == Init /\ [][Next]_vars /\ Fairness

----------------------------------------------------------------------------
(* The running program with the history of the hand-off: the same steps,   *)
(* each also recording in hist what it put on or took from the queues.     *)

\* The payloads the trainer sends while the hand-off is observed: on the gear
\* characteristic a gear report and the empty payload, on the grade
\* characteristic lock and a grade.
DisplayGearPayloads == { <<0, 0, 0, 5>>, <<>> }
DisplayGradePayloads == { <<253, 51, 1>>, <<253, 52, 80, 0>> }

\* The waiting items without the oldest one of the given queue.
RECURSIVE WithoutFirst(_, _)
WithoutFirst(pending, kind) ==
    IF pending = <<>> THEN <<>>
    ELSE IF Head(pending)[1] = kind
         THEN Tail(pending)
         ELSE <<Head(pending)>> \o WithoutFirst(Tail(pending), kind)

\* What a step adds to the history: a put appends the item to pending and
\* makes it the latest of its queue; a get_nowait that returns an item takes
\* the oldest waiting item of that queue from pending and pays one owed item;
\* the start of process_queue owes every item waiting at that moment.
Track ==
    LET put_gears == Len(gears_queue') > Len(gears_queue)
        put_grade == Len(grade_queue') > Len(grade_queue)
        got_gears == Len(gears_queue') < Len(gears_queue)
        got_grade == Len(grade_queue') < Len(grade_queue)
        starts == poll_pc = "idle" /\ poll_pc' = "gears"
        less(n) == IF n > 0 THEN n - 1 ELSE 0
    IN  hist' =
          [pending |->
              IF put_gears
              THEN Append(hist.pending, <<"gears", gears_queue'[Len(gears_queue')]>>)
              ELSE IF put_grade
              THEN Append(hist.pending, <<"grade", grade_queue'[Len(grade_queue')]>>)
              ELSE IF got_gears THEN WithoutFirst(hist.pending, "gears")
              ELSE IF got_grade THEN WithoutFirst(hist.pending, "grade")
              ELSE hist.pending,
           latest_gears |->
              IF put_gears THEN Some(gears_queue'[Len(gears_queue')])
              ELSE hist.latest_gears,
           latest_grade |->
              IF put_grade THEN Some(grade_queue'[Len(grade_queue')])
              ELSE hist.latest_grade,
           owed_gears |->
              IF starts THEN Len(gears_queue)
              ELSE IF got_gears THEN less(hist.owed_gears)
              ELSE hist.owed_gears,
           owed_grade |->
              IF starts THEN Len(grade_queue)
              ELSE IF got_grade THEN less(hist.owed_grade)
              ELSE hist.owed_grade]

\* A step of the running program with its history: the model lets it leave
\* at most MaxPending items in either queue.
Shown(A) == A /\ QueuesWithin(MaxPending) /\ Track /\ UNCHANGED windowVars

\* One session after another, each ended by the loss of the link.
DisplayNext ==
    \/ Shown(MainScan)
    \/ \E devices \in DeviceLists : Shown(MainFound(devices))
    \/ Shown(MainConnected)
    \/ Shown(MainSettled)
    \/ Shown(MainNotifyGears)
    \/ Shown(MainNotifyGrade)
    \/ Shown(MainPoll)
    \/ Shown(MainConnectionLost)
    \/ Shown(LinkLost)
    \/ \E data \in DisplayGearPayloads : Shown(GearsNotification(data))
    \/ \E data \in DisplayGradePayloads : Shown(GradeNotification(data))
    \/ Shown(ProcessQueueStart)
    \/ Shown(ProcessGear)
    \/ Shown(ProcessGearsEmpty)
    \/ Shown(ProcessGrade)
    \/ Shown(ProcessGradeEmpty)

\* The running program, its hand-off observed.
SpecDisplay == Init /\ [][DisplayNext]_vars

----------------------------------------------------------------------------
(* The window: the scale dialog opened by a right-click, its buttons, the   *)
(* config file, and the end and restart of the program.  A scale is held in *)
(* hundredths.  show_scale_dialog calls dialog.update() (line 387), which   *)
(* runs the handlers of the events that wait, a further right-click         *)
(* included; ui_stack holds the dialogs of the calls suspended there.       *)

\* Positions of the slider (from_=0.45, to=1.5, resolution=0.05, line 267).
Scales == {45, 100, 150}

\* All other variables: the window's handlers do not touch them.
programVars == <<decoderVars, queueVars, labelVars, loopVars, last, hist>>

\* The dialogs named by a suspended call.
Suspended == { ui_stack[i] : i \in 1..Len(ui_stack) }

\* tk.Toplevel(root): a window that is none of those in use.
NewDialog ==
    LET used == dialogs \cup Suspended
    IN  CHOOSE d \in 1..(Cardinality(used) + 1) :
            d \notin used /\ \A e \in 1..(d - 1) : e \in used

\* show_scale_dialog that does not close the dialog that is open.
ShowScaleDialog_keeps ==
    /\ root_exists
    /\ dialogs' = dialogs \cup {NewDialog}
    /\ current_dialog' = Some(NewDialog)
    /\ ui_stack' = Append(ui_stack, NewDialog)
    /\ UNCHANGED <<window_scale, dragging_enabled, root_exists, config_scale>>

\* Lines 238-387: a right-click on the main window; the dialog that is open
\* is destroyed, a new one is built and tracked, and the call enters
\* dialog.update().
ShowScaleDialog ==
    /\ root_exists
    /\ dialogs' = (IF current_dialog # None
                   THEN dialogs \ {Val(current_dialog)}
                   ELSE dialogs) \cup {NewDialog}
    /\ current_dialog' = Some(NewDialog)
    /\ ui_stack' = Append(ui_stack, NewDialog)
    /\ UNCHANGED <<window_scale, dragging_enabled, root_exists, config_scale>>

\* Lines 387-395: the innermost dialog.update() returns and its call ends,
\* with TclError when its dialog or the application has been destroyed.
ShowScaleDialogReturns ==
    /\ ui_stack # <<>>
    /\ ui_stack' = SubSeq(ui_stack, 1, Len(ui_stack) - 1)
    /\ UNCHANGED <<window_scale, dragging_enabled, current_dialog, dialogs,
                   root_exists, config_scale>>

\* Lines 287-337: apply_scale of the given dialog, the slider at new_scale
\* and the checkbox at dragging.  save_dialog_position (line 298) rewrites the
\* config with the dialog's position and leaves its other keys as they are.
ApplyScale(dialog, new_scale, dragging) ==
    /\ root_exists
    /\ dialog \in dialogs
    /\ dragging_enabled' = dragging
    /\ dialogs' = dialogs \ {dialog}
    /\ current_dialog' = None
    /\ IF new_scale # window_scale
       THEN window_scale' = new_scale
       ELSE UNCHANGED window_scale
    /\ UNCHANGED <<root_exists, ui_stack, config_scale>>

\* Lines 339-351, 380: cancel_scale of the given dialog, from its Cancel
\* button or its close button.
CancelScale(dialog) ==
    /\ root_exists
    /\ dialog \in dialogs
    /\ dialogs' = dialogs \ {dialog}
    /\ current_dialog' = None
    /\ UNCHANGED <<window_scale, dragging_enabled, root_exists, ui_stack,
                   config_scale>>

\* Lines 370-374, 228-236: quit_app of the given dialog; on_closing destroys
\* the main window and every window in it.
QuitApp(dialog) ==
    /\ root_exists
    /\ dialog \in dialogs
    /\ dialogs' = {}
    /\ current_dialog' = None
    /\ root_exists' = FALSE
    /\ UNCHANGED <<window_scale, dragging_enabled, ui_stack, config_scale>>

\* Lines 228-236: on_closing from the quit box, a key or the title bar.
OnClosing ==
    /\ root_exists
    /\ dialogs' = {}
    /\ root_exists' = FALSE
    /\ UNCHANGED <<window_scale, dragging_enabled, current_dialog, ui_stack,
                   config_scale>>

\* Lines 224-226, 95-109: the left button is released over the main window;
\* save_window_position writes the position and the scale.
OnButtonRelease ==
    /\ root_exists
    /\ config_scale' = Some(window_scale)
    /\ UNCHANGED <<window_scale, dragging_enabled, current_dialog, dialogs,
                   root_exists, ui_stack>>

\* Lines 148-149, 161: the program is started again after it ended; the
\* globals are fresh and load_config reads the scale, 1.0 when there is none.
Restart ==
    /\ ~root_exists
    /\ ui_stack = <<>>
    /\ root_exists' = TRUE
    /\ window_scale' = (IF config_scale = None THEN 100 ELSE Val(config_scale))
    /\ dragging_enabled' = FALSE
    /\ current_dialog' = None
    /\ dialogs' = {}
    /\ UNCHANGED <<ui_stack, config_scale>>

\* A step of the window: the model nests at most MaxNest calls of
\* show_scale_dialog.
Window(A) == A /\ Len(ui_stack') <= MaxNest /\ UNCHANGED programVars

WindowNext ==
    \/ Window(ShowScaleDialog)
    \/ Window(ShowScaleDialogReturns)
    \/ \E dialog \in dialogs, new_scale \in Scales, dragging \in BOOLEAN :
          Window(ApplyScale(dialog, new_scale, dragging))
    \/ \E dialog \in dialogs : Window(CancelScale(dialog))
    \/ \E dialog \in dialogs : Window(QuitApp(dialog))
    \/ Window(OnClosing)
    \/ Window(OnButtonRelease)
    \/ Window(Restart)

\* The window in use over any number of runs of the program.
SpecWindow == Init /\ [][WindowNext]_vars

----------------------------------------------------------------------------
(* Properties of the decoders. *)

\* The two payload shapes calc_grade dispatches on.
IsLockPayload(data) == Len(data) >= 3 /\ data[1] = 253 /\ data[2] = 51
IsGradePayload(data) == Len(data) >= 4 /\ data[1] = 253 /\ data[2] = 52

\* The composite label of a grade/lock state: None when nothing is known.
Composite(grade, lock) ==
    CASE grade # None /\ lock = Some(TRUE)  -> Some(grade[1] \o " (L)")
      [] grade # None /\ lock = Some(FALSE) -> Some(grade[1] \o " (U)")
      [] grade # None /\ lock = None        -> grade
      [] grade = None /\ lock = Some(TRUE)  -> Some("L")
      [] grade = None /\ lock = Some(FALSE) -> Some("U")
      [] OTHER                              -> None

\* The texts that show n hundredths with one fractional digit: the nearest
\* tenth, and either neighbour when n lies exactly between two tenths.
ShownWithOneDigit(n) ==
    { ToString(t \div 10) \o "." \o ToString(t % 10) :
        t \in { u \in {n \div 10, n \div 10 + 1} : 10 * u - 5 <= n /\ n <= 10 * u + 5 } }

\* C1: after any sequence of calc_grade calls the value returned is composed
\* from both globals as they now are: "{grade} (L)" or "{grade} (U)" when both
\* are set, the grade alone, "L" or "U" alone, and None when neither is set.
C1_ReturnComposedFromState ==
    last.op = "calc_grade" =>
        /\ ~last.raised
        /\ last.ret = Composite(current_grade, current_lock_status)

\* C1 witness: a payload that updates neither field returns the full label.
C1_Witness ==
    /\ last.op = "calc_grade"
    /\ last.data = <<0, 0>>
    /\ last.ret = Some("+0.8% (L)")

\* C3 as stated: with lockStatus unlocked, [0xFD,0x34,0x00,0xFF] returns
\* "-1.0% (U)".  (A grade payload leaves the lock as it was, so the lock after
\* the call is the lock the call was given.)
C3_Original ==
    (/\ last.op = "calc_grade"
     /\ last.data = <<253, 52, 0, 255>>
     /\ current_lock_status = Some(FALSE))
        => last.ret = Some("-1.0% (U)")

\* C3 amended: with lockStatus unlocked, [0xFD,0x34,0x00,0xFF] returns
\* "-2.5% (U)": 0xFFFF - 0xFF00 = 255 hundredths, and 255 / 100.0 prints 2.5.
C3_Amended ==
    (/\ last.op = "calc_grade"
     /\ last.data = <<253, 52, 0, 255>>
     /\ current_lock_status = Some(FALSE))
        => last.ret = Some("-2.5% (U)")

\* C3 witness: that payload has been decoded with the lock unlocked.
C3_Witness ==
    /\ last.op = "calc_grade"
    /\ last.data = <<253, 52, 0, 255>>
    /\ current_lock_status = Some(FALSE)
    /\ current_grade = Some("-2.5%")

\* C4 as stated: a gear payload of exactly 2 bytes returns ("Bad Gear",
\* "Data") and does not raise.
C4_Claim ==
    (last.op = "decode_gears" /\ Len(last.data) = 2)
        => (~last.raised /\ last.ret = <<"Bad Gear", "Data">>)

\* C5: a gear payload of fewer than 2 bytes returns ("Bad Gear", "Data") and
\* does not raise.
C5_ShortPayloadPlaceholder ==
    (last.op = "decode_gears" /\ Len(last.data) < 2)
        => (~last.raised /\ last.ret = <<"Bad Gear", "Data">>)

\* C5 witness: a one-byte payload has been decoded.
C5_Witness ==
    /\ last.op = "decode_gears"
    /\ Len(last.data) = 1
    /\ last.ret = <<"Bad Gear", "Data">>

C7_LockPayload ==
    [][ (last'.op = "calc_grade" /\ IsLockPayload(last'.data)) =>
          /\ current_lock_status' = Some(last'.data[3] = 1)
          /\ current_grade' = current_grade
          /\ (/\ current_grade = None
              /\ current_lock_status = None
              /\ last'.data = <<253, 51, 1>>) => last'.ret = Some("L") ]_vars

\* C7 witness: a flag byte other than 0 and 1 has unlocked, a grade being known.
C7_Witness ==
    /\ last.op = "calc_grade"
    /\ last.data = <<253, 51, 255>>
    /\ current_lock_status = Some(FALSE)
    /\ current_grade # None

\* C8: a payload of at least 4 bytes beginning 0xFD 0x34 with byte 3 below
\* 0x80 stores "+", raw / 100 with one fractional digit and "%", raw =
\* (byte 3 << 8) | byte 2 in 0..32767, and leaves the lock as it was; with
\* the lock locked, [0xFD,0x34,0x50,0x00] returns "+0.8% (L)".
C8_PositiveGrade ==
    [][ (/\ last'.op = "calc_grade"
         /\ IsGradePayload(last'.data)
         /\ last'.data[4] < 128) =>
          LET raw == last'.data[4] * 256 + last'.data[3]
          IN  /\ raw \in 0..32767
              /\ \E shown \in ShownWithOneDigit(raw) :
                    current_grade' = Some("+" \o shown \o "%")
              /\ current_lock_status' = current_lock_status
              /\ (/\ current_lock_status = Some(TRUE)
                  /\ last'.data = <<253, 52, 80, 0>>)
                     => last'.ret = Some("+0.8% (L)") ]_vars

\* C8 witness: that payload has been decoded with the lock locked.
C8_Witness ==
    /\ last.op = "calc_grade"
    /\ last.data = <<253, 52, 80, 0>>
    /\ current_lock_status = Some(TRUE)
    /\ last.ret = Some("+0.8% (L)")

\* C9: a payload of at least 4 bytes beginning 0xFD 0x34 with byte 3 at or
\* above 0x80 stores "-", (0xFFFF - raw) / 100 with one fractional digit and
\* "%"; the magnitude is 0xFFFF - raw, in 0..32767, not 0x10000 - raw: raw =
\* 0xFFFF stores "-0.0%" and raw = 0xFF00 stores "-2.5%" (255 hundredths;
\* 256 would print 2.6).
C9_NegativeGrade ==
    (/\ last.op = "calc_grade"
     /\ IsGradePayload(last.data)
     /\ last.data[4] >= 128) =>
        LET raw == last.data[4] * 256 + last.data[3]
            magnitude == 65535 - raw
        IN  /\ magnitude \in 0..32767
            /\ \E shown \in ShownWithOneDigit(magnitude) :
                  current_grade = Some("-" \o shown \o "%")
            /\ (raw = 65535 => current_grade = Some("-0.0%"))
            /\ (raw = 65280 => current_grade = Some("-2.5%"))

\* C9 witness: raw = 0xFFFF has been decoded to a magnitude of 0.
C9_Witness ==
    /\ last.op = "calc_grade"
    /\ last.data = <<253, 52, 255, 255>>
    /\ current_grade = Some("-0.0%")

\* C10: a payload of neither shape (unknown header, empty, 0xFD 0x33 shorter
\* than 3, 0xFD 0x34 shorter than 4) changes neither global and raises
\* nothing; the call returns the label of the unchanged state, None when
\* neither was set.
C10_UnrecognizedPayload ==
    [][ (/\ last'.op = "calc_grade"
         /\ ~IsLockPayload(last'.data)
         /\ ~IsGradePayload(last'.data)) =>
          /\ current_grade' = current_grade
          /\ current_lock_status' = current_lock_status
          /\ ~last'.raised
          /\ last'.ret = Composite(current_grade, current_lock_status)
          /\ (current_grade = None /\ current_lock_status = None)
                => last'.ret = None ]_vars

\* C10 witness: a grade header one byte short has returned the known label.
C10_Witness ==
    /\ last.op = "calc_grade"
    /\ last.data = <<253, 52, 80>>
    /\ last.ret = Some("+0.8% (L)")

\* C11: calc_grade called twice in a row with the same payload leaves, after
\* the second call, the globals the first call left and returns what the
\* first call returned; two identical lock payloads with the grade unset both
\* return "L", or both return "U".
C11_RepeatedPayload ==
    last.op = "calc_grade again" =>
        /\ ~last.raised
        /\ current_grade = last.first_grade
        /\ current_lock_status = last.first_lock
        /\ last.ret = last.first_ret
        /\ (IsLockPayload(last.data) /\ current_grade = None) =>
              /\ last.ret \in {Some("L"), Some("U")}
              /\ last.ret = Some("L") <=> last.data[3] = 1

\* C11 witness: the lock payload [0xFD,0x33,0x01] was decoded twice from an
\* unlocked state with no grade, and returned "L" both times.
C11_Witness ==
    /\ last.op = "calc_grade again"
    /\ last.data = <<253, 51, 1>>
    /\ last.first_ret = Some("L")
    /\ last.ret = Some("L")
    /\ current_grade = None

----------------------------------------------------------------------------
(* Properties of the running program. *)

\* C2: both globals start unset; in every step of the running program (grade
\* and gear notifications, unknown payloads, loss of the link, every step of
\* the reconnect loop and of the display poll) a set field stays set, and a
\* field changes only in a grade notification whose payload carries that field.
C2_FieldsRetained ==
    /\ current_grade = None /\ current_lock_status = None
    /\ [][ /\ current_grade # None => current_grade' # None
           /\ current_lock_status # None => current_lock_status' # None
           /\ current_grade' # current_grade =>
                 \E data \in NotifyPayloads :
                     IsGradePayload(data) /\ GradeNotification(data)
           /\ current_lock_status' # current_lock_status =>
                 \E data \in NotifyPayloads :
                     IsLockPayload(data) /\ GradeNotification(data) ]_vars

\* C2 witness: both fields are still set, the lock overwritten to unlocked,
\* after the link was lost and main is scanning again.
C2_Witness ==
    /\ current_grade = Some("-2.5%")
    /\ current_lock_status = Some(FALSE)
    /\ pc = "discover"
    /\ ~is_connected

\* The pair a gear notification hands over, from its payload alone: none for
\* a payload of 2 or 3 bytes, whose decoding raises.
GearPairOf(data) ==
    IF Len(data) >= 4
    THEN <<"Front Gear: " \o ToString(data[3] + 1),
           "Rear Gear : " \o ToString(data[4] + 1)>>
    ELSE <<"Bad Gear", "Data">>

\* C12: the two globals change only in a grade notification: every step of
\* main (scan, not found, connection failed, lost, error, retry), the loss of
\* the link, every step of process_queue and every gear notification leave
\* both as they were; and what a gear notification hands over is determined
\* by its payload, whatever the globals and the queues hold.
C12_OnlyGradeDecodeWrites ==
    [][ /\ (\/ MainNext
            \/ LinkLost
            \/ ProcessQueueNext
            \/ \E data \in NotifyPayloads : GearsNotification(data))
              => UNCHANGED decoderVars
        /\ (decoderVars' # decoderVars) =>
              \E data \in NotifyPayloads : GradeNotification(data)
        /\ \A data \in NotifyPayloads :
              (GearsNotification(data) /\ gears_queue' # gears_queue) =>
                  gears_queue' = Append(gears_queue, GearPairOf(data)) ]_vars

\* C12 witness: a gear pair has been handed over and shown, the link was lost
\* and its status waits in the queue; both globals are still set.
C12_Witness ==
    /\ gear_label_front = "Front Gear: 1"
    /\ gear_label_back = "Rear Gear : 6"
    /\ gears_queue = << <<"Connection lost.", "Reconnecting...">> >>
    /\ current_grade = Some("+0.8%")
    /\ current_lock_status = Some(TRUE)

\* The positions of main inside one attempt: from the call of discover() to
\* the liveness poll.
Attempt ==
    {"discover", "connect", "settle", "notify_gears", "notify_grade", "active"}

\* C14 as stated: every failure of an attempt (discover raising, no KICKR
\* found, the connection failing, start_notify raising, the link lost, an
\* exception while polling) enters the delay of asyncio.sleep(1), and a new
\* scan starts only from the top of the loop, reached from that delay.
C14_Claim ==
    [][ /\ (pc \in Attempt /\ pc' \notin Attempt) => pc' = "sleep"
        /\ (pc # "loop" /\ pc' = "loop") => pc = "sleep"
        /\ (pc # "discover" /\ pc' = "discover") => pc = "loop" ]_vars

\* C16 as stated: whenever main is in the liveness poll, both subscriptions
\* are in force.
C16_Original ==
    pc = "active" => (gears_notify /\ grade_notify)

\* C16 amended: whenever main is in the liveness poll the gear subscription
\* is in force; the grade subscription is in force too unless its
\* start_notify raised, and it is never in force without the gear one.
C16_Amended ==
    /\ pc = "active" => gears_notify
    /\ grade_notify => (gears_notify /\ pc = "active")

\* C16 witness: main polls a connected client with the gear subscription
\* only.
C16_Witness ==
    /\ pc = "active"
    /\ is_connected
    /\ gears_notify
    /\ ~grade_notify

\* C17: every step of main that ends an attempt (back to the top of the loop,
\* directly or through the delay) puts exactly one status on gears_queue,
\* and the status names the cause: "KICKR not found." only after a discovery,
\* "Connection failed." only when the client entered is not connected,
\* "Connection lost." only when the polled link is down, and otherwise the
\* text of the exception after "Error: " or "Connection error ".
C17_ReturnAnnounced ==
    [][ (pc \in Attempt /\ pc' \notin Attempt) =>
          /\ Len(gears_queue') = Len(gears_queue) + 1
          /\ SubSeq(gears_queue', 1, Len(gears_queue)) = gears_queue
          /\ LET status == gears_queue'[Len(gears_queue')]
             IN  /\ Len(status) = 2
                 /\ \/ status[1] = "KICKR not found." /\ pc = "discover"
                    \/ status[1] = "Connection failed." /\ pc = "connect"
                    \/ /\ status[1] = "Connection lost."
                       /\ pc = "active"
                       /\ ~is_connected
                    \/ \E e \in ExcTexts :
                          \/ status[1] = "Error: " \o e /\ pc # "active"
                          \/ /\ status[1] = "Connection error " \o e
                             /\ pc = "active" ]_vars

\* C17 witness: main is back at the top of the loop after the link was lost,
\* and the status naming the loss waits in the queue.
C17_Witness ==
    /\ pc = "loop"
    /\ ~is_connected
    /\ gears_queue = << <<"Connection lost.", "Reconnecting...">> >>

\* C19: while both globals are unset nothing has been put on grade_queue and
\* the grade label keeps "Grade: --"; a grade notification puts nothing when
\* both are still unset after it and otherwise puts exactly one item, the
\* composite label of the globals after it, whatever its payload; and
\* grade_queue grows in no other step.
C19_GradePutIffLabel ==
    /\ [](current_grade = None /\ current_lock_status = None =>
              grade_queue = <<>> /\ grade_label = "Grade: --")
    /\ [][ /\ \A data \in NotifyPayloads :
                GradeNotification(data) =>
                    LET label == Composite(current_grade', current_lock_status')
                    IN  IF label = None
                        THEN grade_queue' = grade_queue
                        ELSE grade_queue' = Append(grade_queue, label[1])
           /\ Len(grade_queue') > Len(grade_queue) =>
                 \E data \in NotifyPayloads : GradeNotification(data) ]_vars

\* C19 witness: the label shown has been put again, by a notification that
\* changed neither global.
C19_Witness ==
    /\ grade_label = "Grade: +0.8% (L)"
    /\ grade_queue = <<"+0.8% (L)">>
    /\ current_grade = Some("+0.8%")
    /\ current_lock_status = Some(TRUE)

\* A discovered device's name is present and contains "KICKR", in capitals.
NameMatches(name) ==
    /\ name # None
    /\ \E i \in 1..Len(name[1]) :
          i + 4 <= Len(name[1]) /\ SubSeq(name[1], i, i + 4) = "KICKR"

\* C20: main moves forward only from the scan to the connection, from the
\* connection to the subscriptions and from there to the liveness poll; the
\* device it connects to is the first of the discovered devices whose name
\* matches, "KICKR not found." is put exactly when no discovered device
\* matches, and it goes on from the connection only with the client
\* connected, subscribing only after that.
C20_ForwardPath ==
    [][ /\ (pc' # pc /\ pc' = "connect") => pc = "discover"
        /\ (pc' # pc /\ pc' = "settle") => (pc = "connect" /\ is_connected')
        /\ (pc' # pc /\ pc' = "notify_gears") => pc = "settle"
        /\ (pc' # pc /\ pc' = "notify_grade") => pc = "notify_gears"
        /\ (pc' # pc /\ pc' = "active") => pc = "notify_grade"
        /\ (gears_notify' /\ ~gears_notify) => (is_connected /\ pc = "notify_gears")
        /\ (grade_notify' /\ ~grade_notify) => (is_connected /\ pc = "notify_grade")
        /\ \A devices \in DeviceLists :
              /\ MainFound(devices) =>
                    /\ \E i \in 1..Len(devices) :
                          /\ NameMatches(devices[i])
                          /\ \A j \in 1..(i - 1) : ~NameMatches(devices[j])
                          /\ kicker' = devices[i]
                    /\ gears_queue' = gears_queue
              /\ MainNotFound(devices) =>
                    /\ \A i \in 1..Len(devices) : ~NameMatches(devices[i])
                    /\ gears_queue' =
                          Append(gears_queue, <<"KICKR not found.", "Retrying...">>)
        /\ (pc = "discover" /\ pc' # pc) =>
              \/ \E devices \in DeviceLists : MainFound(devices) \/ MainNotFound(devices)
              \/ \E e \in ExcTexts : MainError(e) ]_vars

\* C20 witness: main polls the link of the first matching device of a
\* discovery that held an unrelated device before it and a second KICKR
\* after it.
C20_Witness ==
    /\ pc = "active"
    /\ is_connected
    /\ kicker = Some("KICKR BIKE 1A2B")
    /\ gears_notify
    /\ grade_notify

\* The oldest waiting item of the given queue.
RECURSIVE FirstOf(_, _)
FirstOf(pending, kind) ==
    IF Head(pending)[1] = kind THEN Head(pending)[2]
    ELSE FirstOf(Tail(pending), kind)

\* A waiting item that a notification handler put: a grade label, or a pair
\* returned by decode_gears (main's status pairs are the other gear items).
FromNotification(item) ==
    \/ item[1] = "grade"
    \/ item[2][1] = "Bad Gear"
    \/ (Len(item[2][1]) >= 12 /\ SubSeq(item[2][1], 1, 12) = "Front Gear: ")

\* C13 as stated: the result of a notification that process_queue applies to
\* a label is the oldest of all the results of notifications that wait, gear
\* and grade results taken together.
C13_Original ==
    [][ LET results == SelectSeq(hist.pending, FromNotification)
            got_gears == Len(gears_queue') < Len(gears_queue)
            got_grade == Len(grade_queue') < Len(grade_queue)
        IN  /\ (got_gears /\ FromNotification(<<"gears", Head(gears_queue)>>)) =>
                  /\ Head(results)[1] = "gears"
                  /\ <<gear_label_front', gear_label_back'>> = Head(results)[2]
            /\ got_grade =>
                  /\ Head(results)[1] = "grade"
                  /\ grade_label' = "Grade: " \o Head(results)[2] ]_vars

\* C13 amended: whatever process_queue applies to the gear labels is the
\* oldest gear or status item waiting, and whatever it applies to the grade
\* label is the oldest grade item waiting; the items of one queue are applied
\* in the order they were put, whatever waits in the other queue.
C13_Amended ==
    [][ /\ Len(gears_queue') < Len(gears_queue) =>
              <<gear_label_front', gear_label_back'>> = FirstOf(hist.pending, "gears")
        /\ Len(grade_queue') < Len(grade_queue) =>
              grade_label' = "Grade: " \o FirstOf(hist.pending, "grade") ]_vars

\* C13 witness: the lock was put before the gear report; the gear report has
\* been applied, after the status put before it, and the lock still waits.
C13_Witness ==
    /\ gear_label_front = "Front Gear: 1"
    /\ gear_label_back = "Rear Gear : 6"
    /\ grade_label = "Grade: --"
    /\ hist.pending = << <<"grade", "L">>, <<"gears", <<"Bad Gear", "Data">> >> >>
    /\ poll_pc = "gears"

\* The labels show the item put last on each queue.
ShowsLatestGears ==
    hist.latest_gears # None =>
        <<gear_label_front, gear_label_back>> = hist.latest_gears[1]
ShowsLatestGrade ==
    hist.latest_grade # None =>
        grade_label = "Grade: " \o hist.latest_grade[1]

C15_ScansAgain ==
    (\/ pc \notin Attempt
     \/ (pc \in {"settle", "notify_gears", "notify_grade", "active"} /\ ~is_connected))
        ~> (pc = "discover")

\* C15 witness: main is in the delay after the start_notify of the gear
\* characteristic raised on a link that had gone down.
C15_Witness ==
    /\ pc = "sleep"
    /\ ~is_connected
    /\ kicker # None
    /\ gear_label_front = "Error: timeout"


----------------------------------------------------------------------------
(* Properties of the window. *)

\* C21 as stated: when apply_scale changes the scale, the config's scale is
\* the new scale from that step on, so a run started after the program ended
\* begins with the scale the run before it ended with.
C21_Claim ==
    [][ /\ (root_exists /\ root_exists' /\ window_scale' # window_scale) =>
              config_scale' = Some(window_scale')
        /\ (~root_exists /\ root_exists') => window_scale' = window_scale ]_vars

\* The one dialog that current_dialog tracks, if any.
Tracked == IF current_dialog = None THEN {} ELSE {current_dialog[1]}

\* C22: at most one dialog exists, and while the main window exists it is
\* the one current_dialog tracks; a right-click leaves exactly the new
\* dialog, whatever was open before; and after Apply, Cancel, the close
\* button and Quit App current_dialog is None and no dialog exists.
C22_OneDialog ==
    /\ [](/\ Cardinality(dialogs) <= 1
          /\ root_exists => dialogs = Tracked)
    /\ [][ /\ ShowScaleDialog =>
                 \E d \in dialogs' :
                     dialogs' = {d} /\ d \notin dialogs /\ current_dialog' = <<d>>
           /\ (\E d \in dialogs :
                  \/ \E new_scale \in Scales, dragging \in BOOLEAN :
                        ApplyScale(d, new_scale, dragging)
                  \/ CancelScale(d)
                  \/ QuitApp(d)) =>
                 (current_dialog' = None /\ dialogs' = {}) ]_vars

\* C22 witness: a second right-click was handled inside the first call's
\* dialog.update(); the first dialog is gone and the second is tracked.
C22_Witness ==
    /\ root_exists
    /\ ui_stack = <<1, 2>>
    /\ dialogs = {2}
    /\ current_dialog = Some(2)

====
